---- MODULE Spec2Model ----
(***************************************************************************)
(* A model of inipp (src/inipp.hh): the text utilities of namespace        *)
(* private_, the line parser in the constructor of inifile, the store      *)
(* (sections_, defaultsection_) and the accessors get / dget / section /   *)
(* getval.                                                                 *)
(*                                                                         *)
(* A std::string is a sequence of one-character strings.  Positions are    *)
(* the 0-based positions of the source; npos is std::string::npos.         *)
(***************************************************************************)
EXTENDS Integers, Sequences, FiniteSets, TLC

VARIABLES
  sections_,        \* kkv_t sections_: section name -> (key -> value)
  defaultsection_,  \* kv_t defaultsection_: key -> value
  cursec,           \* kv_t* cursec of the constructor
  pc,               \* "parsing" (in the constructor's loop), "ready"
                    \* (constructed), "failed" (syntax_error thrown)
  consumed,         \* the lines std::getline has delivered so far
  result            \* the outcome of the last accessor call

vars == <<sections_, defaultsection_, cursec, pc, consumed, result>>

\* ------------------------------------------------------------------ bounds
MaxLines == 4
MaxLineLen == 4
MaxTokens == 3

\* --------------------------------------------------------- std::string
npos == -1

Min(a, b) == IF a < b THEN a ELSE b

\* The default whitespace argument of trim, " \t\n\r\f\v" (TLA+ has no \v).
whitespace == {" ", "\t", "\n", "\r", "\f"}

\* s.find_first_of(cs): the first position holding a character of cs
find_first_of(s, cs) ==
  LET hit == {p \in 0..(Len(s) - 1) : s[p + 1] \in cs}
  IN IF hit = {} THEN npos ELSE CHOOSE p \in hit : \A q \in hit : p <= q

\* s.find_first_not_of(cs)
find_first_not_of(s, cs) ==
  LET hit == {p \in 0..(Len(s) - 1) : s[p + 1] \notin cs}
  IN IF hit = {} THEN npos ELSE CHOOSE p \in hit : \A q \in hit : p <= q

\* s.find_last_not_of(cs)
find_last_not_of(s, cs) ==
  LET hit == {p \in 0..(Len(s) - 1) : s[p + 1] \notin cs}
  IN IF hit = {} THEN npos ELSE CHOOSE p \in hit : \A q \in hit : p >= q

\* s.erase(pos): drops everything from pos on
erase(s, pos) == SubSeq(s, 1, pos)

\* s.erase(0, n): drops the first n characters
erase_front(s, n) == SubSeq(s, n + 1, Len(s))

\* s.substr(pos, n)
substr(s, pos, n) == SubSeq(s, pos + 1, pos + Min(n, Len(s) - pos))

\* ---------------------------------------------------- namespace private_
rstrip(s, c_to_strip) ==
  LET endpos == find_last_not_of(s, c_to_strip)
  IN IF endpos = npos THEN <<>> ELSE erase(s, endpos + 1)

lstrip(s, c_to_strip) ==
  LET startpos == find_first_not_of(s, c_to_strip)
  IN IF startpos = npos THEN <<>> ELSE erase_front(s, startpos)

trim(str) == rstrip(lstrip(str, whitespace), whitespace)

\* strip_comment(s, mark)
strip_comment_mark(s, mark) ==
  LET pos == find_first_of(s, mark)
  IN IF pos # npos THEN erase(s, pos) ELSE s

\* As strip_comment, without the pass for ";".
strip_comment_hash_only(s) == strip_comment_mark(s, {"#"})

\* strip_comment(s): first "#", then ";" on what is left
strip_comment(s) == strip_comment_mark(strip_comment_mark(s, {"#"}), {";"})

\* split(in, "=", first, second): [ok, first, second]
split(in, sep) ==
  LET eqpos == find_first_of(in, {sep})
  IN IF eqpos = npos
     THEN [ok |-> FALSE, first |-> <<>>, second |-> <<>>]
     ELSE [ok |-> TRUE,
           first |-> substr(in, 0, eqpos),
           second |-> substr(in, eqpos + 1, Len(in) - eqpos - 1)]

\* ------------------------------------------------------ unordered_map
EmptyMap == [x \in {} |-> x]

\* m[k] = v
MapPut(m, k, v) == [x \in (DOMAIN m) \cup {k} |-> IF x = k THEN v ELSE m[x]]

\* As MapTouch, but a key that is present is given a fresh mapped value.
MapTouchReset(m, k) == MapPut(m, k, EmptyMap)

\* m[k] as an lvalue: creates an empty mapped value when k is absent
MapTouch(m, k) == IF k \in DOMAIN m THEN m ELSE MapPut(m, k, EmptyMap)

\* ------------------------------------------------- inifile::inifile
\* kv_t* cursec: &this->defaultsection_ or &this->sections_[name]
default_target == <<"defaultsection_">>

\* As section_target, but the header "[]" points back at the default section.
section_target_unnamed(name) ==
  IF name = <<>> THEN default_target ELSE <<"sections_", name>>

section_target(name) == <<"sections_", name>>

\* The constructor's locals and the members it fills, as one record.
ctor_state(S, D, c, t) ==
  [sections |-> S, defaultsection |-> D, cursec |-> c, thrown |-> t]

\* (*cursec)[key] = value
cursec_put(st, key, value) ==
  IF st.cursec = default_target
  THEN ctor_state(st.sections, MapPut(st.defaultsection, key, value),
                  st.cursec, st.thrown)
  ELSE ctor_state(MapPut(st.sections, st.cursec[2],
                         MapPut(st.sections[st.cursec[2]], key, value)),
                  st.defaultsection, st.cursec, st.thrown)

\* throw syntax_error(...): the constructor is left, the members built so
\* far are destroyed and no inifile object exists
throw_syntax_error(st) == ctor_state(EmptyMap, EmptyMap, default_target, TRUE)

\* As normalise, but what is left of the comment is trimmed once more.
normalise_retrim(line) == trim(strip_comment(trim(line)))

\* "trim line", "remove comments"
normalise(line) == strip_comment(trim(line))

\* "section?": the branch taken when line[0] == '['
header_line(st, line) ==
  IF line[Len(line)] # "]"
  THEN throw_syntax_error(st)
  ELSE LET name == trim(substr(line, 1, Len(line) - 2))
       IN ctor_state(MapTouch(st.sections, name), st.defaultsection,
                     section_target(name), st.thrown)

\* As entry_line, but a line without "=" is skipped instead of thrown on.
entry_line_lenient(st, line) ==
  LET kv == split(line, "=")
  IN IF kv.ok
     THEN cursec_put(st, trim(kv.first), trim(kv.second))
     ELSE st

\* "entry: split by "=", trim and set", else "throw exception on invalid line"
entry_line(st, line) ==
  LET kv == split(line, "=")
  IN IF kv.ok
     THEN cursec_put(st, trim(kv.first), trim(kv.second))
     ELSE throw_syntax_error(st)

\* One iteration of while(std::getline(infile, line))
loop_body(st, raw) ==
  LET line == normalise(raw)
  IN IF line = <<>> THEN st
     ELSE IF line[1] = "[" THEN header_line(st, line)
     ELSE entry_line(st, line)

\* ------------------------------------------------------------ accessors
\* What a call gives back: a value, or the exception it throws.
Value(v) == [kind |-> "value", val |-> v]
UnknownSection == [kind |-> "unknown_section", val |-> <<>>]
UnknownEntry == [kind |-> "unknown_entry", val |-> <<>>]
Handle(name) == [kind |-> "handle", val |-> name]

\* A const call on the store: the store after the call and the outcome.
Call(S, D, out) == [sections |-> S, defaultsection |-> D, out |-> out]

\* As get, but a declared section without entries counts as unknown.
get_nonempty(S, D, section, key) ==
  IF ~(section \in DOMAIN S) \/ S[section] = EmptyMap
  THEN Call(S, D, UnknownSection)
  ELSE IF ~(key \in DOMAIN S[section]) THEN Call(S, D, UnknownEntry)
  ELSE Call(S, D, Value(S[section][key]))

\* As get, but the section is looked up with operator[], which inserts it.
get_inserting(S, D, section, key) ==
  LET T == MapTouch(S, section)
  IN IF S = T /\ key \in DOMAIN S[section]
     THEN Call(S, D, Value(S[section][key]))
     ELSE IF S = T THEN Call(S, D, UnknownEntry)
     ELSE Call(T, D, UnknownSection)

\* inifile::get(section, key)
get(S, D, section, key) ==
  IF ~(section \in DOMAIN S) THEN Call(S, D, UnknownSection)
  ELSE IF ~(key \in DOMAIN S[section]) THEN Call(S, D, UnknownEntry)
  ELSE Call(S, D, Value(S[section][key]))

\* inifile::get(key)
get_default(S, D, key) ==
  IF ~(key \in DOMAIN D) THEN Call(S, D, UnknownEntry)
  ELSE Call(S, D, Value(D[key]))

\* As dget, but only unknown_entry_error is caught.
dget_entry_only(S, D, section, key, default_value) ==
  LET r == get(S, D, section, key)
  IN IF r.out.kind = "unknown_entry"
     THEN Call(r.sections, r.defaultsection, Value(default_value))
     ELSE r

\* inifile::dget(section, key, default_value)
dget(S, D, section, key, default_value) ==
  LET r == get(S, D, section, key)
  IN IF r.out.kind \in {"unknown_section", "unknown_entry"}
     THEN Call(r.sections, r.defaultsection, Value(default_value))
     ELSE r

\* inifile::dget(key, default_value)
dget_default(S, D, key, default_value) ==
  LET r == get_default(S, D, key)
  IN IF r.out.kind = "unknown_entry"
     THEN Call(r.sections, r.defaultsection, Value(default_value))
     ELSE r

\* inifile::section(section)
section(S, D, name) ==
  IF ~(name \in DOMAIN S) THEN Call(S, D, UnknownSection)
  ELSE Call(S, D, Handle(name))

\* inisection::get(key), on the handle section(name) returned
inisection_get(S, D, name, key) == get(S, D, name, key)

\* inisection::dget(key, default_val)
inisection_dget(S, D, name, key, default_val) ==
  dget(S, D, name, key, default_val)

\* inifile::getval(sec, key, const std::string& def): dget in try/catch(...)
getval_string(S, D, sec, key, def) ==
  LET r == dget(S, D, sec, key, def)
  IN IF r.out.kind = "value" THEN r
     ELSE Call(r.sections, r.defaultsection, Value(def))

\* inisection::getval(key, const std::string& def)
inisection_getval_string(S, D, name, key, def) ==
  LET r == inisection_dget(S, D, name, key, def)
  IN IF r.out.kind = "value" THEN r
     ELSE Call(r.sections, r.defaultsection, Value(def))

\* ------------------------------------------------ typed getval<T>
\* std::istringstream i{src}: operator>> first skips whitespace (skipws)
skipws(s) == lstrip(s, whitespace)

Digits == {"0", "1", "2", "3", "4", "5", "6", "7", "8", "9"}

DigitVal(c) ==
  CASE c = "0" -> 0 [] c = "1" -> 1 [] c = "2" -> 2 [] c = "3" -> 3
    [] c = "4" -> 4 [] c = "5" -> 5 [] c = "6" -> 6 [] c = "7" -> 7
    [] c = "8" -> 8 [] c = "9" -> 9

RECURSIVE DecimalValue(_)
DecimalValue(ds) ==
  IF ds = <<>> THEN 0
  ELSE 10 * DecimalValue(SubSeq(ds, 1, Len(ds) - 1)) + DigitVal(ds[Len(ds)])

INT_MAX == 2147483647

\* What an extraction leaves: whether the stream is still good, the value
\* read and the characters not yet read.
Extracted(ok, val, rest) == [ok |-> ok, val |-> val, rest |-> rest]

\* i >> rv for T = int: an optional sign, then decimal digits
extract_int(src) ==
  LET s == skipws(src)
      signed == s # <<>> /\ s[1] \in {"+", "-"}
      body == IF signed THEN Tail(s) ELSE s
      n == LET stop == find_first_not_of(body, Digits)
           IN IF stop = npos THEN Len(body) ELSE stop
      mag == DecimalValue(SubSeq(body, 1, n))
      v == IF signed /\ s[1] = "-" THEN 0 - mag ELSE mag
  IN IF n = 0 \/ v > INT_MAX \/ v < (0 - INT_MAX) - 1
     THEN Extracted(FALSE, 0, <<>>)
     ELSE Extracted(TRUE, v, SubSeq(body, n + 1, Len(body)))

truename == <<"t", "r", "u", "e">>
falsename == <<"f", "a", "l", "s", "e">>

IsPrefix(p, s) == Len(p) <= Len(s) /\ SubSeq(s, 1, Len(p)) = p

\* The lower-case form of the letters of truename and falsename.
ToLower(c) ==
  CASE c = "T" -> "t" [] c = "R" -> "r" [] c = "U" -> "u" [] c = "E" -> "e"
    [] c = "F" -> "f" [] c = "A" -> "a" [] c = "L" -> "l" [] c = "S" -> "s"
    [] OTHER -> c

Lower(s) == [i \in 1..Len(s) |-> ToLower(s[i])]

\* As extract_bool, but the characters are matched in any letter case.
extract_bool_nocase(src) ==
  LET s == skipws(src)
  IN IF IsPrefix(truename, Lower(s))
     THEN Extracted(TRUE, TRUE, SubSeq(s, Len(truename) + 1, Len(s)))
     ELSE IF IsPrefix(falsename, Lower(s))
     THEN Extracted(TRUE, FALSE, SubSeq(s, Len(falsename) + 1, Len(s)))
     ELSE Extracted(FALSE, FALSE, <<>>)

\* i >> std::boolalpha >> rv for T = bool: the characters are matched
\* against the classic locale's truename and falsename
extract_bool(src) ==
  LET s == skipws(src)
  IN IF IsPrefix(truename, s)
     THEN Extracted(TRUE, TRUE, SubSeq(s, Len(truename) + 1, Len(s)))
     ELSE IF IsPrefix(falsename, s)
     THEN Extracted(TRUE, FALSE, SubSeq(s, Len(falsename) + 1, Len(s)))
     ELSE Extracted(FALSE, FALSE, <<>>)

\* i >> c: succeeds when a non-whitespace character is left
extract_char(rest) == skipws(rest) # <<>>

\* As converted, without the test that nothing is left to read.
converted_prefix(e, def) == IF e.ok THEN e.val ELSE def

\* (i >> std::boolalpha >> rv) && !(i >> c) ? rv : def
converted(e, def) == IF e.ok /\ ~extract_char(e.rest) THEN e.val ELSE def

\* inifile::getval<int>(sec, key, def)
getval_int(S, D, sec, key, def) ==
  LET r == get(S, D, sec, key)
  IN IF r.out.kind # "value"
     THEN Call(r.sections, r.defaultsection, Value(def))
     ELSE Call(r.sections, r.defaultsection,
               Value(converted(extract_int(r.out.val), def)))

\* inifile::getval<bool>(sec, key, def)
getval_bool(S, D, sec, key, def) ==
  LET r == get(S, D, sec, key)
  IN IF r.out.kind # "value"
     THEN Call(r.sections, r.defaultsection, Value(def))
     ELSE Call(r.sections, r.defaultsection,
               Value(converted(extract_bool(r.out.val), def)))

\* inisection::getval<int>(key, def)
inisection_getval_int(S, D, name, key, def) ==
  LET r == inisection_get(S, D, name, key)
  IN IF r.out.kind # "value"
     THEN Call(r.sections, r.defaultsection, Value(def))
     ELSE Call(r.sections, r.defaultsection,
               Value(converted(extract_int(r.out.val), def)))

\* inisection::getval<bool>(key, def)
inisection_getval_bool(S, D, name, key, def) ==
  LET r == inisection_get(S, D, name, key)
  IN IF r.out.kind # "value"
     THEN Call(r.sections, r.defaultsection, Value(def))
     ELSE Call(r.sections, r.defaultsection,
               Value(converted(extract_bool(r.out.val), def)))

\* ---------------------------------------------------------------- inputs
\* The lines of the documents of Spec.
DocLines ==
  { <<"[", "a", "]">>,
    <<"[", "]">>,
    <<"k", "=", "1">>,
    <<" ", "k", " ", "=", " ", "2", " ", "#", "c">>,
    <<"j", "=", "1", ";", "2">>,
    <<"#", "c">>,
    <<"x">>,
    <<"[", "a">> }

\* The characters of the lines of SpecLine, which are all the strings of at
\* most MaxLineLen of them.
Chars == {"a", " ", "#", ";", "[", "]", "="}

AllLines == UNION {[1..n -> Chars] : n \in 0..MaxLineLen}

PrefixLines == { <<"[", "a", "]">>, <<"k", "=", "1">> }

\* The stored texts of SpecTyped: at most MaxTokens of these, concatenated.
Tokens ==
  { truename, falsename,
    <<"T", "r", "u", "e">>, <<"T", "R", "U", "E">>,
    <<"F", "a", "l", "s", "e">>,
    <<"n", "o", "t", "a", "b", "o", "o", "l">>,
    <<"4">>, <<"2">>, <<"x">>, <<" ">>, <<"-">> }

RECURSIVE Texts(_)
Texts(n) ==
  IF n = 0 THEN {<<>>}
  ELSE Texts(n - 1) \cup {t \o tok : t \in Texts(n - 1), tok \in Tokens}

TypedLines == {<<"k", "=">> \o t : t \in Texts(MaxTokens)}

\* The arguments of the accessor calls.
QSections == {<<"a">>, <<>>}
QKeys == {<<"k">>, <<"j">>}
QDefaults == {<<"d">>}
LSections == {<<"a">>}
LKeys == {<<"a">>, <<"k">>}
TSections == {<<"a">>}
TKeys == {<<"k">>}
QInts == {0, 7}

\* ----------------------------------------------------------------- state
NoResult ==
  [op |-> "none", section |-> <<>>, key |-> <<>>, def |-> <<>>,
   out |-> Value(<<>>)]

Init ==
  /\ sections_ = EmptyMap
  /\ defaultsection_ = EmptyMap
  /\ cursec = default_target
  /\ pc = "parsing"
  /\ consumed = <<>>
  /\ result = NoResult

\* std::getline delivers line and the loop body runs on it.
Read(line) ==
  /\ pc = "parsing"
  /\ LET st == loop_body(ctor_state(sections_, defaultsection_, cursec, FALSE),
                         line)
     IN /\ sections_' = st.sections
        /\ defaultsection_' = st.defaultsection
        /\ cursec' = st.cursec
        /\ pc' = IF st.thrown THEN "failed" ELSE "parsing"
  /\ consumed' = Append(consumed, line)
  /\ UNCHANGED result

\* The next line of a document of Spec.
ReadLine ==
  /\ pc = "parsing"
  /\ Len(consumed) < MaxLines
  /\ \E line \in DocLines : Read(line)

\* The first line of a document of SpecLine.
ReadPrefixLine ==
  /\ pc = "parsing"
  /\ consumed = <<>>
  /\ \E line \in PrefixLines : Read(line)

\* The second line of a document of SpecLine.
ReadAnyLine ==
  /\ pc = "parsing"
  /\ Len(consumed) = 1
  /\ \E line \in AllLines : Read(line)

ReadTypedHeader == consumed = <<>> /\ Read(<<"[", "a", "]">>)

ReadTypedLine ==
  /\ pc = "parsing"
  /\ consumed = << <<"[", "a", "]">> >>
  /\ \E line \in TypedLines : Read(line)

\* std::getline fails at the end of the stream: the constructor returns.
Eof ==
  /\ pc = "parsing"
  /\ pc' = "ready"
  /\ UNCHANGED <<sections_, defaultsection_, cursec, consumed, result>>

\* An accessor call on the constructed object.
Answer(op, s, k, d, r) ==
  /\ pc = "ready"
  /\ sections_' = r.sections
  /\ defaultsection_' = r.defaultsection
  /\ result' = [op |-> op, section |-> s, key |-> k, def |-> d, out |-> r.out]
  /\ UNCHANGED <<cursec, pc, consumed>>

Get(s, k) == Answer("get", s, k, <<>>, get(sections_, defaultsection_, s, k))

GetDefault(k) ==
  Answer("get_default", <<>>, k, <<>>,
         get_default(sections_, defaultsection_, k))

Dget(s, k, d) ==
  Answer("dget", s, k, d, dget(sections_, defaultsection_, s, k, d))

DgetDefault(k, d) ==
  Answer("dget_default", <<>>, k, d,
         dget_default(sections_, defaultsection_, k, d))

Section(s) ==
  Answer("section", s, <<>>, <<>>, section(sections_, defaultsection_, s))

\* section(s).get(k): the handle exists only when section(s) did not throw
SectionGet(s, k) ==
  /\ section(sections_, defaultsection_, s).out.kind = "handle"
  /\ Answer("inisection_get", s, k, <<>>,
            inisection_get(sections_, defaultsection_, s, k))

SectionDget(s, k, d) ==
  /\ section(sections_, defaultsection_, s).out.kind = "handle"
  /\ Answer("inisection_dget", s, k, d,
            inisection_dget(sections_, defaultsection_, s, k, d))

GetvalString(s, k, d) ==
  Answer("getval_string", s, k, d,
         getval_string(sections_, defaultsection_, s, k, d))

SectionGetvalString(s, k, d) ==
  /\ section(sections_, defaultsection_, s).out.kind = "handle"
  /\ Answer("inisection_getval_string", s, k, d,
            inisection_getval_string(sections_, defaultsection_, s, k, d))

GetvalInt(s, k, d) ==
  Answer("getval_int", s, k, d,
         getval_int(sections_, defaultsection_, s, k, d))

GetvalBool(s, k, d) ==
  Answer("getval_bool", s, k, d,
         getval_bool(sections_, defaultsection_, s, k, d))

SectionGetvalInt(s, k, d) ==
  /\ section(sections_, defaultsection_, s).out.kind = "handle"
  /\ Answer("inisection_getval_int", s, k, d,
            inisection_getval_int(sections_, defaultsection_, s, k, d))

SectionGetvalBool(s, k, d) ==
  /\ section(sections_, defaultsection_, s).out.kind = "handle"
  /\ Answer("inisection_getval_bool", s, k, d,
            inisection_getval_bool(sections_, defaultsection_, s, k, d))

StringQuery ==
  \E s \in QSections, k \in QKeys, d \in QDefaults :
    \/ Get(s, k)
    \/ GetDefault(k)
    \/ Dget(s, k, d)
    \/ DgetDefault(k, d)
    \/ Section(s)
    \/ SectionGet(s, k)
    \/ SectionDget(s, k, d)
    \/ GetvalString(s, k, d)
    \/ SectionGetvalString(s, k, d)

TypedQuery ==
  \E s \in TSections, k \in TKeys :
    \/ \E d \in QInts : GetvalInt(s, k, d) \/ SectionGetvalInt(s, k, d)
    \/ \E d \in BOOLEAN : GetvalBool(s, k, d) \/ SectionGetvalBool(s, k, d)

\* Documents of at most MaxLines lines of DocLines, then accessor calls.
Next == ReadLine \/ Eof \/ StringQuery \/ TypedQuery

Spec == Init /\ [][Next]_vars

\* One line of PrefixLines, then any line of AllLines.
NextLine ==
  \/ ReadPrefixLine
  \/ ReadAnyLine
  \/ Eof
  \/ \E s \in LSections, k \in LKeys : Get(s, k)

SpecLine == Init /\ [][NextLine]_vars

\* The document "[a]", "k=<text>" with every text of TypedLines, then typed
\* accessors.
NextTyped ==
  \/ ReadTypedHeader
  \/ ReadTypedLine
  \/ Eof
  \/ TypedQuery

SpecTyped == Init /\ [][NextTyped]_vars

\* ============================================================ properties
\* What a document says, read off its lines without running the parser.
SetMin(S) == CHOOSE x \in S : \A y \in S : x <= y
SetMax(S) == CHOOSE x \in S : \A y \in S : x >= y

\* s without its leading and trailing whitespace
RefTrim(s) ==
  LET solid == {p \in 1..Len(s) : s[p] \notin whitespace}
  IN IF solid = {} THEN <<>> ELSE SubSeq(s, SetMin(solid), SetMax(solid))

\* s cut once, at the earliest "#" or ";"
RefCut(s) ==
  LET marks == {p \in 1..Len(s) : s[p] \in {"#", ";"}}
  IN IF marks = {} THEN s ELSE SubSeq(s, 1, SetMin(marks) - 1)

LineText(line) == RefCut(RefTrim(line))

EqPositions(t) == {p \in 1..Len(t) : t[p] = "="}

LineKind(line) ==
  LET t == LineText(line)
  IN IF t = <<>> THEN "blank"
     ELSE IF t[1] = "[" THEN (IF t[Len(t)] = "]" THEN "header" ELSE "bad")
     ELSE IF EqPositions(t) = {} THEN "bad"
     ELSE "entry"

HeaderName(line) ==
  LET t == LineText(line) IN RefTrim(SubSeq(t, 2, Len(t) - 1))

EntryKey(line) ==
  LET t == LineText(line)
  IN RefTrim(SubSeq(t, 1, SetMin(EqPositions(t)) - 1))

EntryValue(line) ==
  LET t == LineText(line)
  IN RefTrim(SubSeq(t, SetMin(EqPositions(t)) + 1, Len(t)))

Headers(doc) == {i \in 1..Len(doc) : LineKind(doc[i]) = "header"}

\* The header line governing line i, 0 when none precedes it.
Governor(doc, i) ==
  LET hs == {j \in Headers(doc) : j < i}
  IN IF hs = {} THEN 0 ELSE SetMax(hs)

Declared(doc, s) == \E j \in Headers(doc) : HeaderName(doc[j]) = s

EntriesOf(doc, s, k) ==
  {i \in 1..Len(doc) :
     /\ LineKind(doc[i]) = "entry"
     /\ EntryKey(doc[i]) = k
     /\ Governor(doc, i) # 0
     /\ HeaderName(doc[Governor(doc, i)]) = s}

DefaultEntriesOf(doc, k) ==
  {i \in 1..Len(doc) :
     /\ LineKind(doc[i]) = "entry"
     /\ EntryKey(doc[i]) = k
     /\ Governor(doc, i) = 0}

BadLines(doc) == {i \in 1..Len(doc) : LineKind(doc[i]) = "bad"}

\* The section names and keys the properties range over.
Names(doc) == QSections \cup {HeaderName(doc[j]) : j \in Headers(doc)}
Keys(doc) ==
  QKeys \cup {EntryKey(doc[i]) :
                i \in {j \in 1..Len(doc) : LineKind(doc[j]) = "entry"}}

\* C1: after a parse without syntax error, get(s, k) is the trimmed,
\* comment-stripped value of the last entry line with key k among the lines
\* governed by a header named s, whichever occurrence of the header governs
\* them.
\* This holds of get on the object as constructed, for every section name
\* and key, and of the outcome of every get called on it later.
C1_GetGivesLastEntryOfSection ==
  /\ (pc = "ready" /\ result = NoResult) =>
       \A s \in Names(consumed), k \in Keys(consumed) :
         LET e == EntriesOf(consumed, s, k)
         IN e # {} =>
              get(sections_, defaultsection_, s, k).out
                = Value(EntryValue(consumed[SetMax(e)]))
  /\ result.op \in {"get", "inisection_get"} =>
       LET e == EntriesOf(consumed, result.section, result.key)
       IN e # {} => result.out = Value(EntryValue(consumed[SetMax(e)]))

\* [a], k=1, [a], k = 2 #c: the header comes back and the key is overwritten.
C1_Witness ==
  /\ pc = "ready"
  /\ consumed = << <<"[", "a", "]">>, <<"k", "=", "1">>, <<"[", "a", "]">>,
                   <<" ", "k", " ", "=", " ", "2", " ", "#", "c">> >>
  /\ result.op = "get" /\ result.section = <<"a">> /\ result.key = <<"k">>
  /\ result.out = Value(<<"2">>)

\* What get(key) and get("", key) give, read off the document: the last
\* entry with the key before the first header, and the last one under "[]".
C2_DefaultIs(S, D, doc, p) ==
  p # "failed" =>
    /\ \A k \in Keys(doc) :
         LET e == DefaultEntriesOf(doc, k)
         IN get_default(S, D, k).out
              = IF e = {} THEN UnknownEntry
                ELSE Value(EntryValue(doc[SetMax(e)]))
    /\ \A k \in Keys(doc) :
         LET e == EntriesOf(doc, <<>>, k)
         IN e # {} => get(S, D, <<>>, k).out
                        = Value(EntryValue(doc[SetMax(e)]))

\* A step changes the default section only when no header has been
\* processed yet, or by the syntax error that ends the parse; and C2_DefaultIs holds after
\* every step that changes the document read, the store or pc.
C2_DefaultStep ==
  /\ defaultsection_' # defaultsection_
       => (Headers(consumed) = {} \/ pc' = "failed")
  /\ (consumed' # consumed \/ sections_' # sections_
        \/ defaultsection_' # defaultsection_ \/ pc' # pc)
       => C2_DefaultIs(sections_', defaultsection_', consumed', pc')

\* C2: the default section holds exactly the entries that precede the first
\* header, during the parse and afterwards: once a header has been
\* processed, "[]" included, no later line changes it, get(key) gives no
\* entry that follows a header, and entries under "[]" are given by
\* get("", key).
C2_DefaultSectionOnlyBeforeFirstHeader ==
  /\ C2_DefaultIs(sections_, defaultsection_, consumed, pc)
  /\ [][C2_DefaultStep]_vars

\* k=1, [], k = 2 #c: get(k) still gives "1", get("", k) gives "2".
C2_Witness ==
  /\ pc = "ready"
  /\ consumed = << <<"k", "=", "1">>, <<"[", "]">>,
                   <<" ", "k", " ", "=", " ", "2", " ", "#", "c">> >>
  /\ result.op = "get_default" /\ result.key = <<"k">>
  /\ result.out = Value(<<"1">>)
  /\ get(sections_, defaultsection_, <<>>, <<"k">>).out = Value(<<"2">>)

\* C3: the constructor throws exactly when the document has a line that is
\* an unterminated header or an entry without "=", at the first such line;
\* nothing is read after it, nothing of the store is left and no accessor can
\* be called; without such a line the constructor does not throw.
C3_AllOrNothing ==
  LET bad == BadLines(consumed)
  IN /\ bad # {} =>
          /\ pc = "failed"
          /\ SetMin(bad) = Len(consumed)
          /\ sections_ = EmptyMap /\ defaultsection_ = EmptyMap
          /\ result = NoResult
          /\ ~ENABLED Next
     /\ bad = {} => pc # "failed"
     /\ (bad = {} /\ pc = "parsing") => ENABLED Eof

\* k=1, then x: the entry read before the bad line is gone as well.
C3_Witness ==
  /\ pc = "failed"
  /\ consumed = << <<"k", "=", "1">>, <<"x">> >>

\* C4: get(section, key) throws unknown_section_error exactly when no header
\* names the section, unknown_entry_error exactly when a header does and no
\* entry under it has the key; get(key) throws nothing but
\* unknown_entry_error; section(name) throws unknown_section_error exactly
\* when no header names it and gives a handle otherwise.
C4_LookupErrors ==
  /\ result.op \in {"get", "inisection_get"} =>
       /\ result.out.kind = "unknown_section"
            <=> ~Declared(consumed, result.section)
       /\ result.out.kind = "unknown_entry"
            <=> /\ Declared(consumed, result.section)
                /\ EntriesOf(consumed, result.section, result.key) = {}
       /\ result.out.kind \in {"unknown_section", "unknown_entry", "value"}
  /\ result.op = "get_default" =>
       /\ result.out.kind \in {"unknown_entry", "value"}
       /\ result.out.kind = "unknown_entry"
            <=> DefaultEntriesOf(consumed, result.key) = {}
  /\ result.op = "section" =>
       /\ result.out.kind = "unknown_section"
            <=> ~Declared(consumed, result.section)
       /\ result.out.kind = "handle" <=> Declared(consumed, result.section)

\* A header without entries: its section is known, its keys are not.
C4_Witness ==
  /\ pc = "ready"
  /\ consumed = << <<"[", "a", "]">> >>
  /\ result.op = "get" /\ result.section = <<"a">>
  /\ result.out = UnknownEntry
  /\ section(sections_, defaultsection_, <<"a">>).out = Handle(<<"a">>)

\* C5: dget throws nothing: it gives what get gives when get gives a value
\* and the fallback when get throws; so do dget(key, fallback) on the default
\* section and dget on a section handle.
C5_DgetIsGetOrFallback ==
  /\ result.op \in {"dget", "inisection_dget"} =>
       LET g == get(sections_, defaultsection_, result.section, result.key).out
       IN result.out = IF g.kind = "value" THEN g ELSE Value(result.def)
  /\ result.op = "dget_default" =>
       LET g == get_default(sections_, defaultsection_, result.key).out
       IN result.out = IF g.kind = "value" THEN g ELSE Value(result.def)

\* dget on a section no header names gives the fallback.
C5_Witness ==
  /\ result.op = "dget"
  /\ ~Declared(consumed, result.section)
  /\ result.out = Value(<<"d">>)

\* The outcome of the call recorded in result, made again on the store as
\* it is now.
Replay ==
  LET S == sections_
      D == defaultsection_
      r == result
  IN CASE r.op = "get" -> get(S, D, r.section, r.key).out
       [] r.op = "get_default" -> get_default(S, D, r.key).out
       [] r.op = "dget" -> dget(S, D, r.section, r.key, r.def).out
       [] r.op = "dget_default" -> dget_default(S, D, r.key, r.def).out
       [] r.op = "section" -> section(S, D, r.section).out
       [] r.op = "inisection_get" ->
            inisection_get(S, D, r.section, r.key).out
       [] r.op = "inisection_dget" ->
            inisection_dget(S, D, r.section, r.key, r.def).out
       [] r.op = "getval_string" ->
            getval_string(S, D, r.section, r.key, r.def).out
       [] r.op = "inisection_getval_string" ->
            inisection_getval_string(S, D, r.section, r.key, r.def).out
       [] r.op = "getval_int" -> getval_int(S, D, r.section, r.key, r.def).out
       [] r.op = "getval_bool" ->
            getval_bool(S, D, r.section, r.key, r.def).out
       [] r.op = "inisection_getval_int" ->
            inisection_getval_int(S, D, r.section, r.key, r.def).out
       [] r.op = "inisection_getval_bool" ->
            inisection_getval_bool(S, D, r.section, r.key, r.def).out

\* C8: a call on the constructed object, whether it gives a value or
\* throws, leaves sections_ and defaultsection_ as they are (no section and
\* no key is created), and the call made again gives the same outcome.
C8_QueriesLeaveStore ==
  /\ [][pc = "ready" =>
          /\ sections_' = sections_
          /\ defaultsection_' = defaultsection_]_vars
  /\ [](result.op # "none" => Replay = result.out)

\* get on a section no header names throws and the section is still absent.
C8_Witness ==
  /\ result.op = "get"
  /\ result.out = UnknownSection
  /\ result.section \notin DOMAIN sections_
  /\ defaultsection_ # EmptyMap

\* The line SpecLine reads second, and the map an entry on it is put in.
AnyLine == consumed[2]

TargetMap ==
  IF LineKind(consumed[1]) = "header"
  THEN sections_[HeaderName(consumed[1])]
  ELSE defaultsection_

\* C9: on every trimmed line the two passes of strip_comment give the line
\* cut once at the earliest "#" or ";"; the value stored for an entry line
\* is the text between its first "=" and that place, trimmed; a line that
\* is empty after trimming and stripping changes neither the store nor the
\* current section.
C9_Inv ==
  /\ \A i \in 1..Len(consumed) :
       LET t == trim(consumed[i]) IN strip_comment(t) = RefCut(t)
  /\ (Len(consumed) = 2 /\ pc # "failed" /\ LineKind(AnyLine) = "entry") =>
       /\ EntryKey(AnyLine) \in DOMAIN TargetMap
       /\ TargetMap[EntryKey(AnyLine)] = EntryValue(AnyLine)

C9_Step ==
  (consumed' # consumed /\ LineKind(consumed'[Len(consumed')]) = "blank")
    => UNCHANGED <<sections_, defaultsection_, cursec, pc>>

C9_CommentStripping == [](C9_Inv) /\ [][C9_Step]_vars

\* [a], then "=a;#": the ";" comes first and the value is "a".
C9_Witness ==
  /\ pc = "ready"
  /\ consumed = << <<"[", "a", "]">>, <<"=", "a", ";", "#">> >>
  /\ result.op = "get" /\ result.section = <<"a">> /\ result.key = <<"a">>
  /\ get(sections_, defaultsection_, <<"a">>, <<>>).out = Value(<<"a">>)

\* The entries of the store are those of the first line of the document.
OnlyPrefixEntries ==
  /\ \A k \in DOMAIN defaultsection_ :
       DefaultEntriesOf(<<consumed[1]>>, k) # {}
  /\ \A s \in DOMAIN sections_ : sections_[s] = EmptyMap

\* C10: a line whose first character after trimming is "[" is a header or a
\* syntax error, never an entry; it is a header exactly when the line, cut
\* at its first marker and not trimmed again, ends in "]": "[] #" and "[#a]"
\* throw, "[a]#" declares section "a".
C10_HeaderBeforeComment ==
  Len(consumed) = 2 =>
    LET t == RefTrim(AnyLine)
        c == RefCut(t)
    IN /\ (t # <<>> /\ t[1] = "[") =>
            IF c[Len(c)] = "]"
            THEN /\ pc # "failed"
                 /\ cursec = section_target(RefTrim(SubSeq(c, 2, Len(c) - 1)))
                 /\ cursec[2] \in DOMAIN sections_
                 /\ LineKind(consumed[1]) = "header" => OnlyPrefixEntries
                 /\ LineKind(consumed[1]) = "entry" =>
                      /\ sections_[cursec[2]] = EmptyMap
                      /\ DOMAIN defaultsection_ = {EntryKey(consumed[1])}
            ELSE pc = "failed"
       /\ AnyLine \in { <<"[", "]", " ", "#">>, <<"[", "]", " ", ";">>,
                        <<"[", "#", "a", "]">>, <<"[", "a", ";", "]">> }
            => pc = "failed"
       /\ AnyLine \in { <<"[", "a", "]", "#">>, <<"[", "a", "]", ";">> }
            => (pc # "failed" /\ cursec = section_target(<<"a">>))

\* "[] #": the blank before the marker is left and the line does not end
\* in "]".
C10_Witness ==
  /\ pc = "failed"
  /\ Len(consumed) = 2
  /\ AnyLine = <<"[", "]", " ", "#">>

\* The text stored for key k of section a by the document of SpecTyped.
HasStored == EntriesOf(consumed, <<"a">>, <<"k">>) # {}

Stored == EntryValue(consumed[SetMax(EntriesOf(consumed, <<"a">>, <<"k">>))])

\* v is, from its first character to its last, a decimal number of an int.
RefIsInt(v) ==
  LET body == IF v # <<>> /\ v[1] \in {"+", "-"} THEN Tail(v) ELSE v
  IN /\ body # <<>>
     /\ \A i \in 1..Len(body) : body[i] \in Digits
     /\ DecimalValue(body) <= INT_MAX

RefIntValue(v) ==
  IF v[1] = "-" THEN 0 - DecimalValue(Tail(v))
  ELSE IF v[1] = "+" THEN DecimalValue(Tail(v))
  ELSE DecimalValue(v)

IntOps == {"getval_int", "inisection_getval_int"}
BoolOps == {"getval_bool", "inisection_getval_bool"}

\* C6: getval<T> throws nothing; it gives the default when the lookup fails
\* and when the stored text is not as a whole a text of T ("", "42x", "4 2"
\* for int, "notabool" for bool), and the value of the text otherwise.
C6_TypedGetval ==
  /\ result.op \in IntOps =>
       /\ result.out.kind = "value"
       /\ result.out.val =
            IF HasStored /\ result.section = <<"a">> /\ result.key = <<"k">>
               /\ RefIsInt(Stored)
            THEN RefIntValue(Stored)
            ELSE result.def
  /\ result.op \in BoolOps =>
       /\ result.out.kind = "value"
       /\ result.out.val =
            IF HasStored /\ result.section = <<"a">> /\ result.key = <<"k">>
               /\ Stored \in {truename, falsename}
            THEN Stored = truename
            ELSE result.def

\* "42x" is stored: getval<int> with default 7 gives 7.
C6_Witness ==
  /\ result.op = "getval_int"
  /\ HasStored /\ Stored = <<"4", "2", "x">>
  /\ result.def = 7
  /\ result.out = Value(7)

\* C7, as claimed: a stored text that is "true" or "false" in any letter
\* case gives that boolean, whatever the default.
C7_BoolAnyCase ==
  (result.op \in BoolOps /\ HasStored) =>
    /\ Lower(Stored) = truename => result.out.val = TRUE
    /\ Lower(Stored) = falsename => result.out.val = FALSE

\* C7, amended: the stored texts "true" and "false", in exactly this
\* lower-case spelling, give that boolean whatever the default; the same
\* words in any other letter case ("True", "TRUE", "False") give the default.
C7_BoolLowerCaseOnly ==
  (result.op \in BoolOps /\ HasStored) =>
    /\ Stored = truename => result.out.val = TRUE
    /\ Stored = falsename => result.out.val = FALSE
    /\ (Lower(Stored) \in {truename, falsename}
        /\ Stored \notin {truename, falsename})
         => result.out.val = result.def

\* "TRUE" is stored: getval<bool> with default false gives false.
C7_Witness ==
  /\ result.op = "getval_bool"
  /\ HasStored /\ Stored = <<"T", "R", "U", "E">>
  /\ result.def = FALSE
  /\ result.out = Value(FALSE)

====
